---- MODULE Spec2Model ----
(***************************************************************************)
(* Multi-armed bandit library: BaseBandit, EpsilonGreedy, UCB1, Thompson   *)
(* (src/src/bandit_core.py, src/src/bandits.py), the driver run_bandit_app *)
(* with initialize_state and do_pulls (src/src/run_bandit.py) and the      *)
(* three pages that call it (src/pages).                                   *)
(*                                                                         *)
(* Arithmetic conventions                                                  *)
(*  - values[] entries (Python floats) are exact rationals <<num, den>>,   *)
(*    den > 0, in lowest terms.                                            *)
(*  - random.random() is a grid point u / RandDen with u in 0..RandDen-1   *)
(*    (so 0.0 is a possible draw, 1.0 is not); probabilities and epsilon   *)
(*    are integers in units of 1 / RandDen.                                *)
(*  - UCB1 scores and rmse() (Python floats built with sqrt and log) are   *)
(*    integers in units of 1 / 1000; the order of two UCB1 scores is that  *)
(*    of the floats for total_pulls <= 5 and counts <= 7, which covers the *)
(*    bounds below.                                                        *)
(*  - Python lists are sequences; Python index i is position i + 1.        *)
(***************************************************************************)
EXTENDS Integers, Sequences, FiniteSets, TLC

\* ------------------------------------------------------------------ bounds
MaxArms == 3
MaxCalls == 2
MaxUpdates == 5
MaxUcbCalls == 4
MaxArgCalls == 2
MaxCycles == 3
MaxRuns == 2
MaxVisits == 3
MaxCount == 1
RandDen == 2

\* ------------------------------------------------------- exact rationals
RECURSIVE Gcd(_, _)
Gcd(a, b) == IF b = 0 THEN a ELSE Gcd(b, a % b)

Abs(x) == IF x < 0 THEN -x ELSE x

Min(a, b) == IF a < b THEN a ELSE b

Max(a, b) == IF a > b THEN a ELSE b

RatNorm(n, d) ==
  LET g == Gcd(Abs(n), Abs(d))
      s == IF d < 0 THEN -1 ELSE 1
  IN  <<(s * n) \div g, (s * d) \div g>>

RatInt(k) == <<k, 1>>

RatAdd(x, y) == RatNorm(x[1] * y[2] + y[1] * x[2], x[2] * y[2])

RatSub(x, y) == RatNorm(x[1] * y[2] - y[1] * x[2], x[2] * y[2])

RatMul(x, y) == RatNorm(x[1] * y[1], x[2] * y[2])

RatDivInt(x, k) == RatNorm(x[1], x[2] * k)

RatGt(x, y) == x[1] * y[2] > y[1] * x[2]

\* ------------------------------------------------------- Python list model
\* [x] * n : the empty list when n <= 0
Repeat(x, n) == [i \in 1..Max(n, 0) |-> x]

\* list[i] is defined for -len <= i < len; negative i counts from the end
InRange(s, i) == (-Len(s) <= i) /\ (i < Len(s))

Pos(s, i) == IF i < 0 THEN Len(s) + i + 1 ELSE i + 1

\* ------------------------------------------------------------ random source
\* random.random(): u / RandDen for u in Draws, i.e. a value of [0, 1)
Draws == 0..(RandDen - 1)

\* np.random.uniform(0.1, 0.9): a grid value strictly inside (0, 1)
UniformDraws == 1..(RandDen - 1)

\* math.log(t) * 1000, rounded, for t = 1..16 (np.log in UCB1.pull)
LnMilli == <<0, 693, 1099, 1386, 1609, 1792, 1946, 2079,
             2197, 2303, 2398, 2485, 2565, 2639, 2708, 2773>>

RECURSIVE SqrtSearch(_, _, _)
SqrtSearch(k, lo, hi) ==
  IF lo >= hi THEN lo
  ELSE LET mid == (lo + hi + 1) \div 2
       IN  IF mid * mid <= k THEN SqrtSearch(k, mid, hi)
           ELSE SqrtSearch(k, lo, mid - 1)

\* floor(sqrt(k)) for 0 <= k < 2^31
ISqrt(k) == SqrtSearch(k, 0, Min(k, 46340))

\* ---------------------------------------------------------------- state
VARIABLES
  constructed,     \* TRUE iff __init__ returned an instance
  cls,             \* the class that was instantiated
  n_arms, true_probs, counts, values,        \* BaseBandit attributes
  epsilon, explore_count, exploit_count,     \* EpsilonGreedy attributes
  total_pulls,                               \* UCB1 attribute
  alphas, betas,                             \* Thompson attributes
  session_state,   \* st.session_state: step, rewards_log, rmse_log
  call,            \* the most recent call: op, args, random draws, ret, err
  pc, arm_l, rwd_l,  \* do_pulls: position in the loop body and its locals
  init_args,       \* the arguments __init__ was called with
  ncalls,          \* number of calls made on the instance
  n_pull,          \* number of pull() calls made
  n_warm,          \* number of warm_up() calls made
  n_forced,        \* number of update() calls made outside do_pulls
  upd_calls,       \* upd_calls[a]: number of update(a, .) calls made
  upd_sum,         \* upd_sum[a]: sum of the rewards passed to update(a, .)
  pull_log,        \* the arms returned by the pull() calls of do_pulls
  log_files,       \* the CSV files log_to_csv writes: their rows, by name
  st_params,       \* st.session_state: n_arms, mode, manual_str, algo_kwargs
  st_bandits,      \* st.session_state[key], the bandit each page stored
  manual_default,  \* st.session_state[key + "_manual_default"]
  built_with,      \* the sidebar settings each stored bandit was built from
  run,             \* run_bandit_app: the locals of the run in progress
  nruns            \* number of runs of run_bandit_app started

attrs == <<constructed, cls, n_arms, true_probs, counts, values, epsilon,
           explore_count, exploit_count, total_pulls, alphas, betas>>

hist == <<init_args, ncalls, n_pull, n_warm, n_forced, upd_calls, upd_sum,
          pull_log>>

drv == <<st_params, st_bandits, manual_default, built_with, run, nruns>>

vars == <<attrs, session_state, call, pc, arm_l, rwd_l, hist, log_files, drv>>

Classes == {"BaseBandit", "EpsilonGreedy", "UCB1", "Thompson"}

\* the integers an arm argument is drawn from when arguments are unchecked
ArgArms == (-(MaxArms + 1))..MaxArms

NoCall == [op |-> "__init__", args |-> <<>>, rnd |-> <<>>, ret |-> <<>>,
           err |-> "none"]

\* ------------------------------------------------------ the three pages
\* the key argument each page passes to run_bandit_app
PageKeys == {"eps", "ucb", "thompson"}

\* the bandit_cls argument of the page
bandit_cls(key) ==
  CASE key = "eps" -> "EpsilonGreedy"
    [] key = "ucb" -> "UCB1"
    [] OTHER -> "Thompson"

\* the log_filename argument of the page
log_filename(key) ==
  CASE key = "eps" -> "eps_logs.csv"
    [] key = "ucb" -> "ucb_logs.csv"
    [] OTHER -> "thompson_logs.csv"

\* the page that runs a class
page_of(c) == CHOOSE key \in PageKeys : bandit_cls(key) = c

LogFiles == {log_filename(key) : key \in PageKeys}

\* log_to_csv: one row <<step, arm, reward, counts, values>> is appended to
\* the file, which is created when it does not exist (no rows: no file);
\* the timestamp column is left out
log_to_csv(files, step, arm, rwd, c, v, filename) ==
  [files EXCEPT ![filename] = Append(@, <<step, arm, rwd, c, v>>)]

\* st.session_state.get(name) for the sidebar settings: <<>> is None
NoParams == [n_arms |-> <<>>, mode |-> <<>>, manual_str |-> <<>>,
             epsilon |-> <<>>, initial_alpha |-> <<>>, initial_beta |-> <<>>]

\* algo_kwargs = {}: <<>> marks a key that is not in the dict
NoKwargs == [epsilon |-> <<>>, initial_alpha |-> <<>>, initial_beta |-> <<>>]

\* a local variable that no assignment has reached
Unbound == [bound |-> FALSE, val |-> [given |-> FALSE, list |-> <<>>]]

\* the locals of run_bandit_app when no run is in progress
NoRun == [key |-> "", n_arms |-> 0, mode |-> "", manual_str |-> <<>>,
          algo_kwargs |-> NoKwargs, manual_probs |-> Unbound,
          error |-> "none", needs_init |-> FALSE, bandit |-> FALSE,
          count |-> 0, reset |-> FALSE]

\* ----------------------------------------------------------- construction
\* Python truthiness of the true_probs argument: None and [] are falsy
Truthy(tp) == tp.given /\ Len(tp.list) > 0

\* np.random.uniform(0.1, 0.9, size=n) raises ValueError for negative n
UniformRaises(n, tp) == ~Truthy(tp) /\ n < 0

\* BaseBandit.__init__, EpsilonGreedy.__init__, UCB1.__init__,
\* Thompson.__init__: c is the class, n the n_arms argument, tp the
\* true_probs argument, eps / ia / ib the hyperparameters, rp the vector
\* np.random.uniform returns when it is called.
Construct(c, n, tp, eps, ia, ib, rp) ==
  /\ cls = c
  /\ init_args = [n_arms |-> n, true_probs |-> tp, epsilon |-> eps,
                  initial_alpha |-> ia, initial_beta |-> ib]
  /\ constructed = ~UniformRaises(n, tp)
  /\ call = [NoCall EXCEPT !.err = IF UniformRaises(n, tp)
                                   THEN "ValueError" ELSE "none"]
  /\ n_arms = n
  /\ true_probs = IF Truthy(tp) THEN tp.list ELSE rp
  /\ counts = IF UniformRaises(n, tp) THEN <<>> ELSE Repeat(0, n)
  /\ values = IF UniformRaises(n, tp) THEN <<>> ELSE Repeat(RatInt(0), n)
  /\ epsilon = IF c = "EpsilonGreedy" THEN eps ELSE 0
  /\ explore_count = 0
  /\ exploit_count = 0
  /\ total_pulls = 0
  /\ alphas = IF c = "Thompson" /\ ~UniformRaises(n, tp)
              THEN Repeat(ia, n) ELSE <<>>
  /\ betas = IF c = "Thompson" /\ ~UniformRaises(n, tp)
             THEN Repeat(ib, n) ELSE <<>>
  /\ session_state = [step |-> 0, rewards_log |-> <<>>, rmse_log |-> <<>>]
  /\ arm_l = 0
  /\ rwd_l = 0
  /\ ncalls = 0
  /\ n_pull = 0
  /\ n_warm = 0
  /\ n_forced = 0
  /\ upd_calls = [a \in ArgArms |-> 0]
  /\ upd_sum = [a \in ArgArms |-> 0]
  /\ pull_log = <<>>
  /\ log_files = [f \in LogFiles |-> <<>>]
  /\ st_params = NoParams
  /\ st_bandits = [key \in PageKeys |-> <<>>]
  /\ manual_default = [key \in PageKeys |-> <<>>]
  /\ built_with = [key \in PageKeys |-> <<>>]
  /\ run = NoRun
  /\ nruns = 0

None == [given |-> FALSE, list |-> <<>>]

Given(l) == [given |-> TRUE, list |-> l]

\* true_probs arguments that respect the constructor's contract for n arms:
\* (1, 0, 1, ..), (0, 1, 0, ..) and a constant vector inside (0, 1)
ValidProbArgs(n) ==
  {Given([i \in 1..n |-> IF i % 2 = 1 THEN RandDen ELSE 0]),
   Given([i \in 1..n |-> IF i % 2 = 1 THEN 0 ELSE RandDen]),
   Given([i \in 1..n |-> RandDen \div 2])}

\* true_probs arguments of any length, with entries below 0 and above 1
AnyProbArgs ==
  {None, Given(<<>>)}
  \cup {Given([i \in 1..m |-> IF i % 2 = 1 THEN RandDen ELSE 0]) :
          m \in 1..MaxArms}
  \cup {Given([i \in 1..m |-> IF i = 1 THEN RandDen + 1 ELSE 0]) :
          m \in 1..MaxArms}
  \cup {Given([i \in 1..m |-> IF i = 1 THEN -1 ELSE RandDen]) :
          m \in 1..MaxArms}

ValidEpsilons == {0, RandDen \div 2, RandDen}

AnyEpsilons == {-1, 0, RandDen, RandDen + 1}

ValidShapes == {<<1, 1>>, <<2, 3>>}

AnyShapes == {<<1, 1>>, <<0, 1>>, <<1, 0>>, <<1, -1>>}

\* the hyperparameters a class takes; the others are not passed
EpsilonsOf(c, E) == IF c = "EpsilonGreedy" THEN E ELSE {0}

ShapesOf(c, S) == IF c = "Thompson" THEN S ELSE {<<1, 1>>}

\* the vectors np.random.uniform(0.1, 0.9, size=n).tolist() can return
UniformVectors(n, tp) ==
  IF Truthy(tp) \/ n < 0 THEN {<<>>} ELSE [1..n -> UniformDraws]

\* a freshly constructed instance, built from contract-respecting arguments
Init ==
  /\ pc = "api"
  /\ \E c \in Classes, n \in 1..MaxArms :
       \E tp \in ValidProbArgs(n), eps \in EpsilonsOf(c, ValidEpsilons),
          sh \in ShapesOf(c, ValidShapes) :
         \E rp \in UniformVectors(n, tp) :
           Construct(c, n, tp, eps, sh[1], sh[2], rp)

\* the result of __init__ on arbitrary arguments
InitConfig ==
  /\ pc = "api"
  /\ \E c \in Classes, n \in (-1)..MaxArms :
       \E tp \in AnyProbArgs, eps \in EpsilonsOf(c, AnyEpsilons),
          sh \in ShapesOf(c, AnyShapes) :
         \E rp \in UniformVectors(n, tp) :
           Construct(c, n, tp, eps, sh[1], sh[2], rp)

\* -------------------------------------------------------------- BaseBandit
\* the binary rewards
Rewards == {0, 1}

\* int(random.random() < p): u / RandDen < p / RandDen
bernoulli(u, p) == IF u < p THEN 1 ELSE 0

\* a running mean that divides the new total by n: (old + reward) / n
mean_step_naive(old, rwd, n) == RatDivInt(RatAdd(old, RatInt(rwd)), n)

\* values[arm] += (reward - values[arm]) / n
mean_step(old, rwd, n) ==
  RatAdd(old, RatDivInt(RatSub(RatInt(rwd), old), n))

\* an increment that reaches every entry of the list
counts_after_all(c, arm) == [i \in 1..Len(c) |-> c[i] + 1]

\* self.counts[arm] += 1
counts_after(c, arm) == [c EXCEPT ![Pos(c, arm)] = @ + 1]

\* n = self.counts[arm]; self.values[arm] += (reward - self.values[arm]) / n
values_after(v, c1, arm, rwd) ==
  [v EXCEPT ![Pos(v, arm)] = mean_step(@, rwd, c1[Pos(c1, arm)])]

\* BaseBandit.update raises IndexError at self.counts[arm], before any write
update_raises(arm) == ~InRange(counts, arm)

\* BaseBandit.reward raises IndexError at self.true_probs[arm]
reward_raises(arm) == ~InRange(true_probs, arm)

\* BaseBandit.rmse in fixed point, times 1000:
\* float(np.sqrt(np.mean([(est - true) ** 2 for est, true in zip(..)])));
\* -1 stands for the nan that the mean of an empty list gives
RECURSIVE SqErrSum(_, _, _)
SqErrSum(v, tp, k) ==
  IF k = 0 THEN 0
  ELSE LET d == (v[k][1] * 1000) \div v[k][2] - (tp[k] * 1000) \div RandDen
       IN  SqErrSum(v, tp, k - 1) + d * d

rmse(v, tp) ==
  LET k == Min(Len(v), Len(tp))
  IN  IF k = 0 THEN -1 ELSE ISqrt(SqErrSum(v, tp, k) \div k)

\* reward(arm): one draw u of the random source decides the value returned
reward(arm) ==
  /\ constructed
  /\ IF reward_raises(arm)
     THEN call' = [op |-> "reward", args |-> <<arm>>, rnd |-> <<>>,
                   ret |-> <<>>, err |-> "IndexError"]
     ELSE \E u \in Draws :
            call' = [op |-> "reward", args |-> <<arm>>, rnd |-> <<>>,
                     ret |-> <<bernoulli(u, true_probs[Pos(true_probs, arm)])>>,
                     err |-> "none"]
  /\ ncalls' = ncalls + 1
  /\ UNCHANGED <<attrs, init_args, n_pull, n_warm, upd_calls, upd_sum>>

\* an increment of 2 in the if branch
alphas_after_twice(a, arm, rwd) ==
  IF rwd /= 0 THEN [a EXCEPT ![Pos(a, arm)] = @ + 2] ELSE a

\* Thompson.update after super().update: if reward: alphas[arm] += 1
alphas_after(a, arm, rwd) ==
  IF rwd /= 0 THEN [a EXCEPT ![Pos(a, arm)] = @ + 1] ELSE a

\* betas[arm] += 1 outside the else branch
betas_after_always(b, arm, rwd) == [b EXCEPT ![Pos(b, arm)] = @ + 1]

\* Thompson.update after super().update: else: betas[arm] += 1
betas_after(b, arm, rwd) ==
  IF rwd /= 0 THEN b ELSE [b EXCEPT ![Pos(b, arm)] = @ + 1]

\* update(arm, reward) of BaseBandit, EpsilonGreedy, UCB1 and Thompson
update(arm, rwd) ==
  /\ constructed
  /\ IF update_raises(arm)
     THEN /\ call' = [op |-> "update", args |-> <<arm, rwd>>, rnd |-> <<>>,
                      ret |-> <<>>, err |-> "IndexError"]
          /\ UNCHANGED <<counts, values, alphas, betas>>
     ELSE /\ call' = [op |-> "update", args |-> <<arm, rwd>>, rnd |-> <<>>,
                      ret |-> <<>>, err |-> "none"]
          /\ counts' = counts_after(counts, arm)
          /\ values' = values_after(values, counts', arm, rwd)
          /\ IF cls = "Thompson"
             THEN /\ alphas' = alphas_after(alphas, arm, rwd)
                  /\ betas' = betas_after(betas, arm, rwd)
             ELSE UNCHANGED <<alphas, betas>>
  /\ ncalls' = ncalls + 1
  /\ upd_calls' = [upd_calls EXCEPT ![arm] = @ + 1]
  /\ upd_sum' = [upd_sum EXCEPT ![arm] = @ + rwd]
  /\ UNCHANGED <<constructed, cls, n_arms, true_probs, epsilon, explore_count,
                 exploit_count, total_pulls, init_args, n_pull, n_warm>>

\* ----------------------------------------------------------- EpsilonGreedy
\* if random.random() > self.epsilon
Exploits(u, eps) == u > eps

\* the exploit branch counted under both tallies
tallies_after_both(u) ==
  IF Exploits(u, epsilon) THEN <<explore_count + 1, exploit_count + 1>>
  ELSE <<explore_count + 1, exploit_count>>

\* the two tallies <<explore_count, exploit_count>> after the branch is taken
tallies_after(u) ==
  IF Exploits(u, epsilon) THEN <<explore_count, exploit_count + 1>>
  ELSE <<explore_count + 1, exploit_count>>

\* int(np.argmax(self.values)): the Python index of the first maximal entry;
\* np.argmax raises ValueError on an empty list
greedy_arm(v) ==
  (CHOOSE i \in 1..Len(v) :
      /\ \A j \in 1..Len(v) : ~RatGt(v[j], v[i])
      /\ \A j \in 1..(i - 1) : RatGt(v[i], v[j])) - 1

pull_eg ==
  \E u \in Draws :
    /\ explore_count' = tallies_after(u)[1]
    /\ exploit_count' = tallies_after(u)[2]
    /\ UNCHANGED total_pulls
    /\ IF Exploits(u, epsilon)
       THEN call' = [op |-> "pull", args |-> <<>>, rnd |-> <<u>>,
                     ret |-> IF Len(values) = 0 THEN <<>>
                             ELSE <<greedy_arm(values)>>,
                     err |-> IF Len(values) = 0 THEN "ValueError" ELSE "none"]
       ELSE IF n_arms <= 0
            THEN call' = [op |-> "pull", args |-> <<>>, rnd |-> <<u>>,
                          ret |-> <<>>, err |-> "ValueError"]
            ELSE \E k \in 0..(n_arms - 1) :
                   call' = [op |-> "pull", args |-> <<>>, rnd |-> <<u, k>>,
                            ret |-> <<k>>, err |-> "none"]

\* -------------------------------------------------------------------- UCB1
\* float("inf"): above every finite score
Inf == 1000000000

\* the infinite score kept until an arm has two observations
ucb_score_cold(i, t) ==
  IF counts[i] <= 1 THEN Inf
  ELSE (values[i][1] * 1000) \div values[i][2]
         + ISqrt((2 * LnMilli[t] * 1000) \div counts[i])

\* the score of the arm at position i when total_pulls is t, times 1000:
\* values[i] + np.sqrt(2 * np.log(t) / counts[i]), or inf for an unpulled arm
ucb_score(i, t) ==
  IF counts[i] = 0 THEN Inf
  ELSE (values[i][1] * 1000) \div values[i][2]
         + ISqrt((2 * LnMilli[t] * 1000) \div counts[i])

ucb_scores(t) == [i \in 1..Max(n_arms, 0) |-> ucb_score(i, t)]

\* an arg-max that breaks ties by the highest index
ucb_arm_last(scores) ==
  (CHOOSE i \in 1..Len(scores) :
      /\ \A j \in 1..Len(scores) : scores[j] <= scores[i]
      /\ \A j \in (i + 1)..Len(scores) : scores[j] < scores[i]) - 1

\* int(np.argmax(scores)): the Python index of the first maximal score
ucb_arm(scores) ==
  (CHOOSE i \in 1..Len(scores) :
      /\ \A j \in 1..Len(scores) : scores[j] <= scores[i]
      /\ \A j \in 1..(i - 1) : scores[j] < scores[i]) - 1

\* self.total_pulls += 1 executed twice in one call
pull_ucb_twice ==
  /\ total_pulls' = total_pulls + 2
  /\ UNCHANGED <<explore_count, exploit_count>>
  /\ LET scores == ucb_scores(total_pulls')
     IN  call' = [op |-> "pull", args |-> <<>>, rnd |-> <<>>,
                  ret |-> IF Len(scores) = 0 THEN <<>> ELSE <<ucb_arm(scores)>>,
                  err |-> IF Len(scores) = 0 THEN "ValueError" ELSE "none"]

\* UCB1.pull: the increment comes first, the scores use the new total_pulls
pull_ucb ==
  /\ total_pulls' = total_pulls + 1
  /\ UNCHANGED <<explore_count, exploit_count>>
  /\ LET scores == ucb_scores(total_pulls')
     IN  call' = [op |-> "pull", args |-> <<>>, rnd |-> <<>>,
                  ret |-> IF Len(scores) = 0 THEN <<>> ELSE <<ucb_arm(scores)>>,
                  err |-> IF Len(scores) = 0 THEN "ValueError" ELSE "none"]

\* ---------------------------------------------------------------- Thompson
\* np.random.beta(a, b) raises ValueError unless a > 0 and b > 0
beta_raises == \E i \in 1..Min(Len(alphas), Len(betas)) :
                 alphas[i] <= 0 \/ betas[i] <= 0

\* independent draws from Beta distributions with full support on (0, 1):
\* every arm can hold the largest sample
pull_thompson ==
  /\ UNCHANGED <<explore_count, exploit_count, total_pulls>>
  /\ IF beta_raises \/ Min(Len(alphas), Len(betas)) = 0
     THEN call' = [op |-> "pull", args |-> <<>>, rnd |-> <<>>, ret |-> <<>>,
                   err |-> "ValueError"]
     ELSE \E k \in 0..(Min(Len(alphas), Len(betas)) - 1) :
            call' = [op |-> "pull", args |-> <<>>, rnd |-> <<k>>,
                     ret |-> <<k>>, err |-> "none"]

\* BaseBandit.pull is abstract
pull_base ==
  /\ UNCHANGED <<explore_count, exploit_count, total_pulls>>
  /\ call' = [op |-> "pull", args |-> <<>>, rnd |-> <<>>, ret |-> <<>>,
              err |-> "NotImplementedError"]

\* pull() of the instance's class
pull ==
  /\ constructed
  /\ CASE cls = "EpsilonGreedy" -> pull_eg
       [] cls = "UCB1" -> pull_ucb
       [] cls = "Thompson" -> pull_thompson
       [] OTHER -> pull_base
  /\ ncalls' = ncalls + 1
  /\ n_pull' = n_pull + 1
  /\ UNCHANGED <<constructed, cls, n_arms, true_probs, counts, values, epsilon,
                 alphas, betas, init_args, n_warm, upd_calls, upd_sum>>

\* the two posterior increments exchanged: alphas += 1 - rwd, betas += rwd
warm_body_swapped(s, k, rwd) ==
  LET arm == k - 1
      c1 == counts_after(s.counts, arm)
      v1 == values_after(s.values, c1, arm, rwd)
      step1 == s.session_state.step + 1
  IN  [counts |-> c1,
       values |-> v1,
       alphas |-> [s.alphas EXCEPT ![k] = @ + (1 - rwd)],
       betas |-> [s.betas EXCEPT ![k] = @ + rwd],
       session_state |->
         [step |-> step1,
          rewards_log |->
            Append(s.session_state.rewards_log, <<step1, arm, rwd>>),
          rmse_log |->
            Append(s.session_state.rmse_log, rmse(v1, true_probs))],
       log_files |->
         log_to_csv(s.log_files, step1, arm, rwd, c1, v1, "thompson_logs.csv")]

\* one iteration of the loop of Thompson.warm_up for the arm at position k,
\* from the state s, with rwd the value self.reward(arm) returned
warm_body(s, k, rwd) ==
  LET arm == k - 1
      c1 == counts_after(s.counts, arm)
      v1 == values_after(s.values, c1, arm, rwd)
      step1 == s.session_state.step + 1
  IN  [counts |-> c1,
       values |-> v1,
       alphas |-> [s.alphas EXCEPT ![k] = @ + rwd],
       betas |-> [s.betas EXCEPT ![k] = @ + (1 - rwd)],
       session_state |->
         [step |-> step1,
          rewards_log |->
            Append(s.session_state.rewards_log, <<step1, arm, rwd>>),
          rmse_log |->
            Append(s.session_state.rmse_log, rmse(v1, true_probs))],
       log_files |->
         log_to_csv(s.log_files, step1, arm, rwd, c1, v1, "thompson_logs.csv")]

\* for arm in range(self.n_arms): the iterations for positions k .. last
RECURSIVE warm_loop(_, _, _, _)
warm_loop(s, k, last, rwds) ==
  IF k > last THEN s
  ELSE warm_loop(warm_body(s, k, rwds[k]), k + 1, last, rwds)

\* the values self.reward can return for an arm of success probability p
reward_outcomes(p) == {bernoulli(u, p) : u \in Draws}

\* range(self.n_arms - 1): the last arm is left out
warm_reach_short == Min(Max(n_arms - 1, 0), Len(true_probs))

\* the number of arms warm_up handles before self.reward(arm) raises
warm_reach == Min(Max(n_arms, 0), Len(true_probs))

warm_up ==
  /\ constructed
  /\ cls = "Thompson"
  /\ \E rwds \in {f \in [1..warm_reach -> Rewards] :
                    \A k \in 1..warm_reach :
                      f[k] \in reward_outcomes(true_probs[k])} :
       \E s \in {warm_loop([counts |-> counts, values |-> values,
                              alphas |-> alphas, betas |-> betas,
                              session_state |-> session_state,
                              log_files |-> log_files],
                             1, warm_reach, rwds)} :
           /\ counts' = s.counts
           /\ values' = s.values
           /\ alphas' = s.alphas
           /\ betas' = s.betas
           /\ session_state' = s.session_state
           /\ log_files' = s.log_files
           /\ call' = [op |-> "warm_up", args |-> <<>>, rnd |-> <<>>,
                       ret |-> <<>>,
                       err |-> IF warm_reach < n_arms THEN "IndexError"
                               ELSE "none"]
  /\ ncalls' = ncalls + 1
  /\ n_warm' = n_warm + 1
  /\ UNCHANGED <<constructed, cls, n_arms, true_probs, epsilon, explore_count,
                 exploit_count, total_pulls, init_args, n_pull, upd_calls,
                 upd_sum>>

\* Thompson.update(arm, rwd) as a function of the model state s: counts,
\* values, alphas, betas
thompson_update(s, arm, rwd) ==
  [counts |-> counts_after(s.counts, arm),
   values |-> values_after(s.values, counts_after(s.counts, arm), arm, rwd),
   alphas |-> alphas_after(s.alphas, arm, rwd),
   betas |-> betas_after(s.betas, arm, rwd)]

\* update(arm, rwds[arm + 1]), update(arm + 1, rwds[arm + 2]), .. in a row
RECURSIVE updates_from(_, _, _)
updates_from(s, arm, rwds) ==
  IF arm >= Len(rwds) THEN s
  ELSE updates_from(thompson_update(s, arm, rwds[arm + 1]), arm + 1, rwds)

\* ------------------------------------------------- calls made by a client
\* the arm indices of the instance
Arms == 0..(n_arms - 1)

PullCall ==
  /\ ncalls < MaxCalls
  /\ pull
  /\ UNCHANGED <<session_state, pc, arm_l, rwd_l, n_forced, pull_log,
                 log_files, drv>>

RewardCall ==
  /\ ncalls < MaxCalls
  /\ \E arm \in Arms : reward(arm)
  /\ UNCHANGED <<session_state, pc, arm_l, rwd_l, n_forced, pull_log,
                 log_files, drv>>

UpdateCall ==
  /\ ncalls < MaxCalls
  /\ \E arm \in Arms, rwd \in Rewards : update(arm, rwd)
  /\ n_forced' = n_forced + 1
  /\ UNCHANGED <<session_state, pc, arm_l, rwd_l, pull_log, log_files, drv>>

WarmUpCall ==
  /\ ncalls < MaxCalls
  /\ warm_up
  /\ UNCHANGED <<pc, arm_l, rwd_l, n_forced, pull_log, drv>>

Next == PullCall \/ RewardCall \/ UpdateCall \/ WarmUpCall

\* any sequence of calls with in-range arms on a validly built instance
Spec == Init /\ [][Next]_vars

\* ------------------------------------------------- update calls only
UpdateOnly ==
  /\ ncalls < MaxUpdates
  /\ \E arm \in Arms, rwd \in Rewards : update(arm, rwd)
  /\ n_forced' = n_forced + 1
  /\ UNCHANGED <<session_state, pc, arm_l, rwd_l, pull_log, log_files, drv>>

\* any sequence of update(arm, r) calls on a validly built instance
SpecUpdate == Init /\ [][UpdateOnly]_vars

\* ------------------------------------- pull and update calls on UCB1 only
InitUcb ==
  /\ pc = "api"
  /\ \E n \in 1..MaxArms :
       \E tp \in ValidProbArgs(n) :
         Construct("UCB1", n, tp, 0, 1, 1, <<>>)

UcbPull ==
  /\ ncalls < MaxUcbCalls
  /\ pull
  /\ UNCHANGED <<session_state, pc, arm_l, rwd_l, n_forced, pull_log,
                 log_files, drv>>

UcbUpdate ==
  /\ ncalls < MaxUcbCalls
  /\ \E arm \in Arms, rwd \in Rewards : update(arm, rwd)
  /\ n_forced' = n_forced + 1
  /\ UNCHANGED <<session_state, pc, arm_l, rwd_l, pull_log, log_files, drv>>

NextUcb == UcbPull \/ UcbUpdate

\* any sequence of pull() and update(arm, r) calls on a fresh UCB1 instance,
\* updates that no pull preceded included
SpecUcb == InitUcb /\ [][NextUcb]_vars

\* -------------------------------------- calls with unchecked arm arguments
PullArg ==
  /\ ncalls < MaxArgCalls
  /\ pull
  /\ UNCHANGED <<session_state, pc, arm_l, rwd_l, n_forced, pull_log,
                 log_files, drv>>

RewardArg ==
  /\ ncalls < MaxArgCalls
  /\ \E arm \in ArgArms : reward(arm)
  /\ UNCHANGED <<session_state, pc, arm_l, rwd_l, n_forced, pull_log,
                 log_files, drv>>

UpdateArg ==
  /\ ncalls < MaxArgCalls
  /\ \E arm \in ArgArms, rwd \in Rewards : update(arm, rwd)
  /\ n_forced' = n_forced + 1
  /\ UNCHANGED <<session_state, pc, arm_l, rwd_l, pull_log, log_files, drv>>

WarmUpArg ==
  /\ ncalls < MaxArgCalls
  /\ warm_up
  /\ UNCHANGED <<pc, arm_l, rwd_l, n_forced, pull_log, drv>>

NextArg == PullArg \/ RewardArg \/ UpdateArg \/ WarmUpArg

\* any sequence of calls with any integer arm on a validly built instance
SpecArg == Init /\ [][NextArg]_vars

\* any sequence of calls on whatever __init__ gives on arbitrary arguments
SpecConfig == InitConfig /\ [][Next]_vars

\* --------------------------------------------------- the do_pulls loop body
Strategies == {"EpsilonGreedy", "UCB1", "Thompson"}

InitCycle ==
  /\ pc = "pull"
  /\ \E c \in Strategies, n \in 1..MaxArms :
       \E tp \in ValidProbArgs(n), eps \in EpsilonsOf(c, ValidEpsilons),
          sh \in ShapesOf(c, ValidShapes) :
         \E rp \in UniformVectors(n, tp) :
           Construct(c, n, tp, eps, sh[1], sh[2], rp)

\* one update(arm, rwd) made by the client before the first loop iteration
ForcedUpdate ==
  /\ pc = "pull"
  /\ n_pull = 0
  /\ n_forced = 0
  /\ \E arm \in Arms, rwd \in Rewards : update(arm, rwd)
  /\ n_forced' = n_forced + 1
  /\ UNCHANGED <<session_state, pc, arm_l, rwd_l, pull_log, log_files, drv>>

\* arm = bandit.pull()
CyclePull ==
  /\ pc = "pull"
  /\ n_pull < MaxCycles
  /\ pull
  /\ IF call'.err = "none"
     THEN /\ pc' = "reward"
          /\ arm_l' = call'.ret[1]
          /\ pull_log' = Append(pull_log, call'.ret[1])
     ELSE UNCHANGED <<pc, arm_l, pull_log>>
  /\ UNCHANGED <<session_state, rwd_l, n_forced, log_files, drv>>

\* rwd = bandit.reward(arm)
CycleReward ==
  /\ pc = "reward"
  /\ reward(arm_l)
  /\ IF call'.err = "none"
     THEN /\ pc' = "update"
          /\ rwd_l' = call'.ret[1]
     ELSE /\ pc' = "pull"
          /\ UNCHANGED rwd_l
  /\ UNCHANGED <<session_state, arm_l, n_forced, pull_log, log_files, drv>>

\* bandit.update(arm, rwd); step += 1; the two logs are appended to
CycleUpdate ==
  /\ pc = "update"
  /\ update(arm_l, rwd_l)
  /\ pc' = "pull"
  /\ IF call'.err = "none"
     THEN /\ session_state' =
               [step |-> session_state.step + 1,
                rewards_log |-> Append(session_state.rewards_log,
                                       <<session_state.step + 1, arm_l, rwd_l>>),
                rmse_log |-> Append(session_state.rmse_log,
                                    rmse(values', true_probs))]
          /\ log_files' = log_to_csv(log_files, session_state.step + 1, arm_l,
                                     rwd_l, counts', values',
                                     log_filename(page_of(cls)))
     ELSE UNCHANGED <<session_state, log_files>>
  /\ UNCHANGED <<arm_l, rwd_l, n_forced, pull_log, drv>>

NextCycle == ForcedUpdate \/ CyclePull \/ CycleReward \/ CycleUpdate

\* pull -> reward -> update cycles, after at most one forced update
SpecCycle == InitCycle /\ [][NextCycle]_vars

\* ------------------------------------------- the driver: run_bandit_app
\* the object the local variable bandit refers to, as a value: its
\* attributes, with the history kept for it
this ==
  [constructed |-> constructed, cls |-> cls, n_arms |-> n_arms,
   true_probs |-> true_probs, counts |-> counts, values |-> values,
   epsilon |-> epsilon, explore_count |-> explore_count,
   exploit_count |-> exploit_count, total_pulls |-> total_pulls,
   alphas |-> alphas, betas |-> betas, init_args |-> init_args,
   ncalls |-> ncalls, n_pull |-> n_pull, n_warm |-> n_warm,
   upd_calls |-> upd_calls, upd_sum |-> upd_sum]

\* bandit_cls(n_arms, **algo_kwargs, true_probs=manual_probs): the object
\* __init__ gives, rp being what np.random.uniform returns when it is called
new_bandit(c, n, tp, eps, ia, ib, rp) ==
  [constructed |-> TRUE, cls |-> c, n_arms |-> n,
   true_probs |-> IF Truthy(tp) THEN tp.list ELSE rp,
   counts |-> Repeat(0, n), values |-> Repeat(RatInt(0), n),
   epsilon |-> IF c = "EpsilonGreedy" THEN eps ELSE 0,
   explore_count |-> 0, exploit_count |-> 0, total_pulls |-> 0,
   alphas |-> IF c = "Thompson" THEN Repeat(ia, n) ELSE <<>>,
   betas |-> IF c = "Thompson" THEN Repeat(ib, n) ELSE <<>>,
   init_args |-> [n_arms |-> n, true_probs |-> tp, epsilon |-> eps,
                  initial_alpha |-> ia, initial_beta |-> ib],
   ncalls |-> 0, n_pull |-> 0, n_warm |-> 0,
   upd_calls |-> [a \in ArgArms |-> 0], upd_sum |-> [a \in ArgArms |-> 0]]

\* the local variable bandit before it is assigned
no_bandit ==
  [constructed |-> FALSE, cls |-> "", n_arms |-> 0, true_probs |-> <<>>,
   counts |-> <<>>, values |-> <<>>, epsilon |-> 0, explore_count |-> 0,
   exploit_count |-> 0, total_pulls |-> 0, alphas |-> <<>>, betas |-> <<>>,
   init_args |-> [n_arms |-> 0, true_probs |-> None, epsilon |-> 0,
                  initial_alpha |-> 1, initial_beta |-> 1],
   ncalls |-> 0, n_pull |-> 0, n_warm |-> 0,
   upd_calls |-> [a \in ArgArms |-> 0], upd_sum |-> [a \in ArgArms |-> 0]]

\* bandit = b: from here on the attributes are those of the object b
bind(b) ==
  /\ constructed' = b.constructed
  /\ cls' = b.cls
  /\ n_arms' = b.n_arms
  /\ true_probs' = b.true_probs
  /\ counts' = b.counts
  /\ values' = b.values
  /\ epsilon' = b.epsilon
  /\ explore_count' = b.explore_count
  /\ exploit_count' = b.exploit_count
  /\ total_pulls' = b.total_pulls
  /\ alphas' = b.alphas
  /\ betas' = b.betas
  /\ init_args' = b.init_args
  /\ ncalls' = b.ncalls
  /\ n_pull' = b.n_pull
  /\ n_warm' = b.n_warm
  /\ upd_calls' = b.upd_calls
  /\ upd_sum' = b.upd_sum

\* the sidebar widgets: st.sidebar.slider("Number of arms", 2, 10, 5)
SliderArms == 2..MaxArms

\* st.sidebar.slider("Epsilon", 0.0, 1.0, 0.1), in units of 1 / RandDen
SliderEpsilons == {0, RandDen}

\* st.sidebar.number_input("initial_alpha", 1, 20, 5) and "initial_beta"
InputShapes == {<<2, 1>>}

\* st.sidebar.radio(.., ["Random", "Manual"])
Modes == {"Random", "Manual"}

\* the buttons and the auto-run box: <<cycles do_pulls is asked for in the
\* run, "Reset All" clicked>>; a click on one button reruns the script, so
\* "Reset All" comes with no pulls
Buttons == {<<c, FALSE>> : c \in 0..MaxCount} \cup {<<0, TRUE>>}

\* algo_kwargs: a page has the widgets its params dict names
algo_kwargs_of(key, eps, sh) ==
  CASE key = "eps" -> [NoKwargs EXCEPT !.epsilon = <<eps>>]
    [] key = "thompson" -> [NoKwargs EXCEPT !.initial_alpha = <<sh[1]>>,
                                           !.initial_beta = <<sh[2]>>]
    [] OTHER -> NoKwargs

EpsilonsOfPage(key) == IF key = "eps" THEN SliderEpsilons ELSE {0}

ShapesOfPage(key) == IF key = "thompson" THEN InputShapes ELSE {<<1, 1>>}

\* a text is the sequence of its comma-separated fields; a field is a number
\* (in units of 1 / RandDen) or something float() does not accept
Num(v) == [num |-> TRUE, val |-> v]

Junk == [num |-> FALSE, val |-> 0]

\* ", ".join(f"{x:.2f}" for x in np.random.uniform(0.1, 0.9, n_arms))
default_string(rp) == [i \in 1..Len(rp) |-> Num(rp[i])]

\* what a user types into the text box: not a number; two probabilities;
\* a value above 1; three probabilities
TypedStrings ==
  {<<Junk>>, <<Num(RandDen), Num(0)>>, <<Num(RandDen + 1), Num(0)>>,
   <<Num(RandDen), Num(0), Num(RandDen)>>}

\* float(x.strip()) raises ValueError for some field of the text
float_raises(str) == \E i \in 1..Len(str) : ~str[i].num

\* vals = [float(x.strip()) for x in text.split(",")]
floats(str) == [i \in 1..Len(str) |-> str[i].val]

\* len(vals) == n_arms and all(0 <= v <= 1 for v in vals)
vals_ok(vals, n) ==
  Len(vals) = n /\ \A i \in 1..Len(vals) : 0 <= vals[i] /\ vals[i] <= RandDen

\* the local manual_probs after the mode branch: None in Random mode, the
\* parsed list when it is accepted, and unassigned on both error paths
manual_probs_of(mode, str, n) ==
  IF mode /= "Manual" THEN [bound |-> TRUE, val |-> None]
  ELSE IF float_raises(str) THEN Unbound
  ELSE IF vals_ok(floats(str), n)
       THEN [bound |-> TRUE, val |-> Given(floats(str))]
       ELSE Unbound

\* the message st.sidebar.error shows, if any
sidebar_error(mode, str, n) ==
  IF mode /= "Manual" THEN "none"
  ELSE IF float_raises(str)
       THEN "Invalid format. Use comma-separated numbers."
  ELSE IF vals_ok(floats(str), n) THEN "none"
       ELSE "Provide valid [0,1] probabilities."

\* st.session_state before the first run and after st.session_state.clear()
InitDriver ==
  /\ pc = "idle"
  /\ constructed = no_bandit.constructed
  /\ cls = no_bandit.cls
  /\ n_arms = no_bandit.n_arms
  /\ true_probs = no_bandit.true_probs
  /\ counts = no_bandit.counts
  /\ values = no_bandit.values
  /\ epsilon = no_bandit.epsilon
  /\ explore_count = no_bandit.explore_count
  /\ exploit_count = no_bandit.exploit_count
  /\ total_pulls = no_bandit.total_pulls
  /\ alphas = no_bandit.alphas
  /\ betas = no_bandit.betas
  /\ init_args = no_bandit.init_args
  /\ ncalls = no_bandit.ncalls
  /\ n_pull = no_bandit.n_pull
  /\ n_warm = no_bandit.n_warm
  /\ upd_calls = no_bandit.upd_calls
  /\ upd_sum = no_bandit.upd_sum
  /\ n_forced = 0
  /\ pull_log = <<>>
  /\ arm_l = 0
  /\ rwd_l = 0
  /\ call = [NoCall EXCEPT !.op = "run_bandit_app"]
  /\ session_state = [step |-> 0, rewards_log |-> <<>>, rmse_log |-> <<>>]
  /\ log_files = [f \in LogFiles |-> <<>>]
  /\ st_params = NoParams
  /\ st_bandits = [key \in PageKeys |-> <<>>]
  /\ manual_default = [key \in PageKeys |-> <<>>]
  /\ built_with = [key \in PageKeys |-> <<>>]
  /\ run = NoRun
  /\ nruns = 0

\* the texts st.session_state[key + "_manual_str"] can hold in a run: the
\* default when the text box is shown for the first time, afterwards the
\* default or what the user typed
texts(key, dflt) ==
  IF manual_default[key] = <<>> THEN {dflt}
  ELSE TypedStrings \cup {manual_default[key][1]}

\* run_bandit_app, lines 78-122: the sidebar widgets are read and the
\* manual probabilities parsed; modes are the modes the user picks from
Sidebar(modes) ==
  /\ pc = "idle"
  /\ \E key \in PageKeys, n \in SliderArms, mode \in modes,
        btn \in Buttons :
       \E eps \in EpsilonsOfPage(key), sh \in ShapesOfPage(key),
          dflt \in {default_string(rp) : rp \in [1..n -> UniformDraws]} :
         \E str \in IF mode = "Manual" THEN texts(key, dflt) ELSE {<<>>} :
           /\ manual_default' =
                IF mode = "Manual" /\ manual_default[key] = <<>>
                THEN [manual_default EXCEPT ![key] = <<dflt>>]
                ELSE manual_default
           /\ run' = [key |-> key, n_arms |-> n, mode |-> mode,
                      manual_str |-> IF mode = "Manual" THEN <<str>>
                                     ELSE <<>>,
                      algo_kwargs |-> algo_kwargs_of(key, eps, sh),
                      manual_probs |-> manual_probs_of(mode, str, n),
                      error |-> sidebar_error(mode, str, n),
                      needs_init |-> FALSE, bandit |-> FALSE,
                      count |-> btn[1], reset |-> btn[2]]
           /\ call' = [op |-> "run_bandit_app", args |-> <<key>>,
                       rnd |-> <<>>, ret |-> <<>>, err |-> "none"]
  /\ pc' = "init"
  /\ nruns' = nruns + 1
  /\ UNCHANGED <<attrs, hist, session_state, arm_l, rwd_l, log_files,
                 st_params, st_bandits, built_with>>

\* the needs_init expression, lines 124-136
needs_init ==
  \/ st_bandits[run.key] = <<>>
  \/ st_params.n_arms /= <<run.n_arms>>
  \/ st_params.mode /= <<run.mode>>
  \/ run.mode = "Manual" /\ st_params.manual_str /= run.manual_str
  \/ \E param \in {"epsilon", "initial_alpha", "initial_beta"} :
       run.algo_kwargs[param] /= <<>>
         /\ st_params[param] /= run.algo_kwargs[param]

\* the params dict passed to initialize_state, line 142
identity(r) == [n_arms |-> r.n_arms, mode |-> r.mode,
                manual_str |-> r.manual_str, algo_kwargs |-> r.algo_kwargs]

\* st.session_state.update({**params, ..}): a key that params does not
\* have keeps its value
params_after(r) ==
  [n_arms |-> <<r.n_arms>>, mode |-> <<r.mode>>, manual_str |-> r.manual_str,
   epsilon |-> IF r.algo_kwargs.epsilon = <<>> THEN st_params.epsilon
               ELSE r.algo_kwargs.epsilon,
   initial_alpha |-> IF r.algo_kwargs.initial_alpha = <<>>
                     THEN st_params.initial_alpha
                     ELSE r.algo_kwargs.initial_alpha,
   initial_beta |-> IF r.algo_kwargs.initial_beta = <<>>
                    THEN st_params.initial_beta
                    ELSE r.algo_kwargs.initial_beta]

\* the keyword argument of bandit_cls, or its default
kwarg(r, param, default) ==
  IF r.algo_kwargs[param] = <<>> THEN default ELSE r.algo_kwargs[param][1]

\* line 141 when needs_init holds and manual_probs was never assigned: the
\* read of manual_probs raises UnboundLocalError and the run ends there
UnboundRaise ==
  /\ pc = "init"
  /\ needs_init
  /\ ~run.manual_probs.bound
  /\ run' = [run EXCEPT !.needs_init = TRUE]
  /\ call' = [call EXCEPT !.err = "UnboundLocalError"]
  /\ pc' = "idle"
  /\ UNCHANGED <<attrs, hist, session_state, arm_l, rwd_l, log_files,
                 st_params, st_bandits, manual_default, built_with, nruns>>

\* lines 138-144 and initialize_state up to the warm_up call: the bandit is
\* constructed, the session's settings, step and logs are overwritten; a
\* bandit without warm_up is stored under the key at once
InitializeState ==
  /\ pc = "init"
  /\ needs_init
  /\ run.manual_probs.bound
  /\ \E rp \in UniformVectors(run.n_arms, run.manual_probs.val) :
       \E b \in {new_bandit(bandit_cls(run.key), run.n_arms,
                            run.manual_probs.val, kwarg(run, "epsilon", 0),
                            kwarg(run, "initial_alpha", 1),
                            kwarg(run, "initial_beta", 1), rp)} :
         /\ bind(b)
         /\ IF b.cls = "Thompson"
            THEN /\ pc' = "warm"
                 /\ run' = [run EXCEPT !.needs_init = TRUE]
                 /\ UNCHANGED st_bandits
            ELSE /\ pc' = "pull"
                 /\ run' = [run EXCEPT !.needs_init = TRUE, !.bandit = TRUE]
                 /\ st_bandits' = [st_bandits EXCEPT ![run.key] = <<b>>]
  /\ call' = NoCall
  /\ session_state' = [step |-> 0, rewards_log |-> <<>>, rmse_log |-> <<>>]
  /\ st_params' = params_after(run)
  /\ built_with' = [built_with EXCEPT ![run.key] = <<identity(run)>>]
  /\ UNCHANGED <<n_forced, pull_log, arm_l, rwd_l, log_files, manual_default,
                 nruns>>

\* initialize_state, lines 57-60, for a bandit that has warm_up
WarmUpState ==
  /\ pc = "warm"
  /\ warm_up
  /\ st_bandits' = [st_bandits EXCEPT ![run.key] = <<this'>>]
  /\ run' = [run EXCEPT !.bandit = TRUE]
  /\ pc' = "pull"
  /\ UNCHANGED <<n_forced, pull_log, arm_l, rwd_l, st_params, manual_default,
                 built_with, nruns>>

\* line 146: bandit = st.session_state[key]
StoredBandit ==
  /\ pc = "init"
  /\ ~needs_init
  /\ bind(st_bandits[run.key][1])
  /\ run' = [run EXCEPT !.bandit = TRUE]
  /\ pc' = "pull"
  /\ UNCHANGED <<n_forced, pull_log, session_state, call, arm_l, rwd_l,
                 log_files, st_params, st_bandits, manual_default, built_with,
                 nruns>>

\* do_pulls: arm = bandit.pull(); the object stored under the key is the
\* one the call changes
DoPull ==
  /\ pc = "pull"
  /\ run.count > 0
  /\ pull
  /\ IF call'.err = "none"
     THEN /\ pc' = "reward"
          /\ arm_l' = call'.ret[1]
          /\ UNCHANGED run
     ELSE /\ pc' = "idle"
          /\ run' = [run EXCEPT !.count = 0]
          /\ UNCHANGED arm_l
  /\ st_bandits' = [st_bandits EXCEPT ![run.key] = <<this'>>]
  /\ UNCHANGED <<n_forced, pull_log, session_state, rwd_l, log_files,
                 st_params, manual_default, built_with, nruns>>

\* do_pulls: rwd = bandit.reward(arm)
DoReward ==
  /\ pc = "reward"
  /\ reward(arm_l)
  /\ IF call'.err = "none"
     THEN /\ pc' = "update"
          /\ rwd_l' = call'.ret[1]
          /\ UNCHANGED run
     ELSE /\ pc' = "idle"
          /\ run' = [run EXCEPT !.count = 0]
          /\ UNCHANGED rwd_l
  /\ st_bandits' = [st_bandits EXCEPT ![run.key] = <<this'>>]
  /\ UNCHANGED <<n_forced, pull_log, session_state, arm_l, log_files,
                 st_params, manual_default, built_with, nruns>>

\* do_pulls: bandit.update(arm, rwd), then the step, the two logs in the
\* session and the row in the page's file
DoUpdate ==
  /\ pc = "update"
  /\ update(arm_l, rwd_l)
  /\ IF call'.err = "none"
     THEN /\ session_state' =
               [step |-> session_state.step + 1,
                rewards_log |-> Append(session_state.rewards_log,
                                       <<session_state.step + 1, arm_l, rwd_l>>),
                rmse_log |-> Append(session_state.rmse_log,
                                    rmse(values', true_probs))]
          /\ log_files' = log_to_csv(log_files, session_state.step + 1, arm_l,
                                     rwd_l, counts', values',
                                     log_filename(run.key))
          /\ pc' = "pull"
          /\ run' = [run EXCEPT !.count = @ - 1]
     ELSE /\ pc' = "idle"
          /\ run' = [run EXCEPT !.count = 0]
          /\ UNCHANGED <<session_state, log_files>>
  /\ st_bandits' = [st_bandits EXCEPT ![run.key] = <<this'>>]
  /\ UNCHANGED <<n_forced, pull_log, arm_l, rwd_l, st_params, manual_default,
                 built_with, nruns>>

\* lines 216-219 and the return: "Reset All" removes the page's file and
\* clears the session; the locals of the run are gone
Return ==
  /\ pc = "pull"
  /\ run.count = 0
  /\ IF run.reset
     THEN /\ log_files' = [log_files EXCEPT ![log_filename(run.key)] = <<>>]
          /\ session_state' =
               [step |-> 0, rewards_log |-> <<>>, rmse_log |-> <<>>]
          /\ st_params' = NoParams
          /\ st_bandits' = [key \in PageKeys |-> <<>>]
          /\ manual_default' = [key \in PageKeys |-> <<>>]
          /\ built_with' = [key \in PageKeys |-> <<>>]
     ELSE UNCHANGED <<log_files, session_state, st_params, st_bandits,
                      manual_default, built_with>>
  /\ bind(no_bandit)
  /\ run' = NoRun
  /\ arm_l' = 0
  /\ rwd_l' = 0
  /\ call' = [NoCall EXCEPT !.op = "run_bandit_app"]
  /\ pc' = "idle"
  /\ UNCHANGED <<n_forced, pull_log, nruns>>

\* a run starts, with any setting of the widgets
SidebarAny ==
  /\ nruns < MaxRuns
  /\ Sidebar(Modes)

NextDriver ==
  \/ SidebarAny
  \/ UnboundRaise
  \/ InitializeState
  \/ WarmUpState
  \/ StoredBandit
  \/ DoPull
  \/ DoReward
  \/ DoUpdate
  \/ Return

\* runs of run_bandit_app for the three pages on one st.session_state
SpecDriver == InitDriver /\ [][NextDriver]_vars

\* a run starts, the probability mode being left at "Random"
SidebarRandom ==
  /\ nruns < MaxVisits
  /\ Sidebar({"Random"})

NextPages ==
  \/ SidebarRandom
  \/ InitializeState
  \/ WarmUpState
  \/ StoredBandit
  \/ DoPull
  \/ DoReward
  \/ DoUpdate
  \/ Return

\* longer sequences of runs, all of them in "Random" mode
SpecPages == InitDriver /\ [][NextPages]_vars

\* ================================================================= claims
\* the update(arm, r) call that a step makes, if it makes one
UpdateStep == call'.op = "update" /\ ncalls' = ncalls + 1

\* the pull() call that a step makes, if it makes one
PullStep == call'.op = "pull" /\ n_pull' = n_pull + 1

\* the lowest Python index of an arm that was never updated
LowestUnpulled ==
  (CHOOSE i \in 1..Len(counts) :
      counts[i] = 0 /\ \A j \in 1..(i - 1) : counts[j] /= 0) - 1

\* C1: after any sequence of update(arm, r) calls with r in {0, 1}, every arm
\* i has counts[i] equal to the number of update(i, .) calls made and
\* values[i] equal to the mean of the rewards passed for it (0 when there
\* were none): values[i] * counts[i] is the sum of those rewards, exactly.
C1_IncrementalMean ==
  \A a \in Arms :
    /\ counts[a + 1] = upd_calls[a]
    /\ RatMul(values[a + 1], RatInt(counts[a + 1])) = RatInt(upd_sum[a])
    /\ (counts[a + 1] = 0 => values[a + 1] = RatInt(0))

\* an arm updated three times with rewards summing to 2: its mean is 2/3
C1_Witness ==
  \E a \in Arms : upd_calls[a] = 3 /\ upd_sum[a] = 2 /\ values[a + 1] = <<2, 3>>

\* C2: with epsilon = 0, for every value u of the random source (u = 0
\* included) pull() takes the exploit branch and returns the lowest-index
\* arm whose values entry is maximal.
C2_GreedyAtZeroEpsilon ==
  (cls = "EpsilonGreedy" /\ epsilon = 0 /\ call.op = "pull")
    => (explore_count = 0 /\ call.ret = <<greedy_arm(values)>>)

\* C3: on a fresh UCB1 instance driven by pull -> reward -> update cycles the
\* first n_arms pulls return 0, 1, .., n_arms - 1 in that order whatever the
\* rewards are; and whenever some arm has counts = 0, pull() returns the
\* lowest-index such arm.
C3_ColdStart ==
  /\ [](cls = "UCB1" /\ n_forced = 0
          => \A k \in 1..Min(Len(pull_log), n_arms) : pull_log[k] = k - 1)
  /\ [][(cls = "UCB1" /\ PullStep /\ \E i \in 1..Len(counts) : counts[i] = 0)
          => call'.ret = <<LowestUnpulled>>]_vars

\* three cycles on a fresh three-armed UCB1 instance, one reward being 1
C3_Witness ==
  /\ cls = "UCB1" /\ n_forced = 0 /\ n_arms = 3
  /\ pull_log = <<0, 1, 2>>
  /\ \E a \in Arms : upd_sum[a] = 1

\* C4: every Thompson.update(arm, r) call with r in {0, 1} increases
\* alphas[arm] by r and betas[arm] by 1 - r, hence their sum by 1, and leaves
\* alphas[j] and betas[j] unchanged for every j /= arm.
C4_PosteriorStep ==
  [][(cls = "Thompson" /\ UpdateStep /\ call'.err = "none")
       => LET k == call'.args[1] + 1
              r == call'.args[2]
          IN  /\ alphas'[k] = alphas[k] + r
              /\ betas'[k] = betas[k] + (1 - r)
              /\ alphas'[k] + betas'[k] = alphas[k] + betas[k] + 1
              /\ \A j \in 1..Len(alphas) :
                   j /= k => alphas'[j] = alphas[j] /\ betas'[j] = betas[j]]_vars

\* two Thompson updates on a three-armed instance, the last with reward 1
\* on an arm whose beta already grew
C4_Witness ==
  /\ cls = "Thompson" /\ n_arms = 3
  /\ call.op = "update" /\ call.err = "none" /\ call.args[2] = 1
  /\ \E i \in 1..n_arms : betas[i] > init_args.initial_beta

\* C5: for every integer arm outside [0, n_arms), reward(arm) and
\* update(arm, r) fail with an index-range error and leave counts, values,
\* alphas and betas as they were.
C5_IndexChecked ==
  [][((call'.op = "reward" \/ call'.op = "update")
        /\ ncalls' = ncalls + 1
        /\ (call'.args[1] < 0 \/ call'.args[1] >= n_arms))
       => (call'.err = "IndexError"
             /\ UNCHANGED <<counts, values, alphas, betas>>)]_vars

\* the arguments of __init__ break the constructor's contract
BadConfig ==
  \/ init_args.n_arms <= 0
  \/ /\ init_args.true_probs.given
     /\ \/ Len(init_args.true_probs.list) /= init_args.n_arms
        \/ \E i \in 1..Len(init_args.true_probs.list) :
             init_args.true_probs.list[i] < 0
               \/ init_args.true_probs.list[i] > RandDen
  \/ cls = "EpsilonGreedy"
       /\ (init_args.epsilon < 0 \/ init_args.epsilon > RandDen)
  \/ cls = "Thompson"
       /\ (init_args.initial_alpha <= 0 \/ init_args.initial_beta <= 0)

\* C6: construction fails, producing no instance, whenever n_arms <= 0, or
\* true_probs is given with a length other than n_arms, or an entry of it is
\* outside [0, 1], or epsilon is outside [0, 1], or initial_alpha or
\* initial_beta is not positive.
C6_ConfigRejected == BadConfig => ~constructed

\* C7: after k >= 1 calls of warm_up() on a fresh Thompson instance every arm
\* i has counts[i] = k and alphas[i] + betas[i] = initial_alpha +
\* initial_beta + k, whatever rewards were drawn.
C7_WarmUpCounts ==
  (cls = "Thompson" /\ n_warm >= 1 /\ n_warm = ncalls)
    => \A i \in 1..n_arms :
         /\ counts[i] = n_warm
         /\ alphas[i] + betas[i]
              = init_args.initial_alpha + init_args.initial_beta + n_warm

\* two warm-ups on a fresh three-armed instance, with both rewards drawn
C7_Witness ==
  /\ cls = "Thompson" /\ n_arms = 3 /\ n_warm = 2 /\ ncalls = 2
  /\ \E i, j \in 1..n_arms :
       alphas[i] > init_args.initial_alpha /\ betas[j] > init_args.initial_beta

\* C8: on an EpsilonGreedy instance explore_count + exploit_count is the
\* number of pull() calls made; each pull() adds 1 to exactly one of the two;
\* neither ever decreases, and update() changes neither.
C8_TallyConservation ==
  /\ [](cls = "EpsilonGreedy" => explore_count + exploit_count = n_pull)
  /\ [][cls = "EpsilonGreedy"
          => /\ explore_count' >= explore_count
             /\ exploit_count' >= exploit_count
             /\ PullStep
                  => explore_count' + exploit_count'
                       = explore_count + exploit_count + 1
             /\ UpdateStep
                  => explore_count' = explore_count
                       /\ exploit_count' = exploit_count]_vars

\* a pull that explored and a pull that exploited
C8_Witness ==
  cls = "EpsilonGreedy" /\ explore_count = 1 /\ exploit_count = 1 /\ n_pull = 2

\* C9: for EpsilonGreedy(n_arms=2, epsilon=0.0, true_probs=[1.0, 0.0]), after
\* one update(0, 1), every pull() of the pull -> reward -> update cycles that
\* follow returns arm 0, for every outcome of the random source.
C9_LocksOnArmZero ==
  (/\ cls = "EpsilonGreedy" /\ n_arms = 2 /\ epsilon = 0
   /\ true_probs = <<RandDen, 0>>
   /\ n_forced = 1 /\ upd_calls[0] = 1 /\ upd_sum[0] = 1)
    => \A k \in 1..Len(pull_log) : pull_log[k] = 0

\* C10: for every instance that construction produces, in every state
\* reachable by pull, reward, update and warm_up calls, counts, values and
\* true_probs have length n_arms, and so have alphas and betas for Thompson.
C10_LengthsAgree ==
  constructed
    => /\ Len(counts) = n_arms
       /\ Len(values) = n_arms
       /\ Len(true_probs) = n_arms
       /\ cls = "Thompson" => Len(alphas) = n_arms /\ Len(betas) = n_arms

\* C11: in UCB1 every pull() adds exactly 1 to total_pulls before the scores
\* are computed, so the scores (and the logarithm in them) are taken at the
\* new total_pulls, which is at least 1 even when update() calls came before
\* the first pull(); update() never changes total_pulls; hence total_pulls is
\* the number of pull() calls made.
C11_TotalPulls ==
  /\ [](cls = "UCB1" => total_pulls = n_pull /\ total_pulls >= 0)
  /\ [][cls = "UCB1"
          => /\ PullStep
                  => /\ total_pulls' = total_pulls + 1
                     /\ total_pulls' >= 1
                     /\ call'.ret = <<ucb_arm(ucb_scores(total_pulls + 1))>>
             /\ UpdateStep => total_pulls' = total_pulls]_vars

\* the first pull() of an instance that was updated before: the logarithm is
\* taken, at total_pulls = 1, for the arm that has an observation
C11_Witness ==
  /\ cls = "UCB1" /\ call.op = "pull" /\ total_pulls = 1
  /\ \E i \in 1..n_arms : counts[i] > 0
  /\ \E i \in 1..n_arms : counts[i] = 0

\* C12: a successful update(arm, r), on an instance of any class, leaves
\* counts[j], values[j], alphas[j] and betas[j] unchanged for every j /= arm,
\* changes no list's length, and leaves n_arms, true_probs, epsilon,
\* explore_count, exploit_count and total_pulls unchanged (alphas and betas
\* change for Thompson only); pull(), on any class, leaves counts, values,
\* true_probs, alphas and betas unchanged.
C12_FrameEffects ==
  [][/\ (UpdateStep /\ call'.err = "none")
          => LET k == call'.args[1] + 1
             IN  /\ Len(counts') = Len(counts) /\ Len(values') = Len(values)
                 /\ Len(alphas') = Len(alphas) /\ Len(betas') = Len(betas)
                 /\ counts'[k] /= counts[k]
                 /\ \A j \in 1..Len(counts) :
                      j /= k => counts'[j] = counts[j] /\ values'[j] = values[j]
                 /\ \A j \in 1..Len(alphas) :
                      j /= k => alphas'[j] = alphas[j] /\ betas'[j] = betas[j]
                 /\ cls /= "Thompson" => alphas' = alphas /\ betas' = betas
                 /\ UNCHANGED <<n_arms, true_probs, epsilon, explore_count,
                                exploit_count, total_pulls>>
     /\ PullStep => UNCHANGED <<counts, values, true_probs, alphas, betas>>]_vars

\* an update on a three-armed Thompson instance that follows a pull
C12_Witness ==
  /\ cls = "Thompson" /\ n_arms = 3 /\ n_pull = 1 /\ ncalls = 2
  /\ call.op = "update" /\ call.err = "none"

\* every arm of the instance has been updated at least once
AllCounted == \A i \in 1..Len(counts) : counts[i] >= 1

\* C13: in UCB1 no call makes a counts entry smaller; so once every arm has
\* counts[i] >= 1 this still holds after every later pull() or update(), and
\* from then on pull() gives no arm the infinite score.
C13_NoInfiniteScore ==
  [][cls = "UCB1"
       => /\ \A i \in 1..Len(counts) : counts'[i] >= counts[i]
          /\ AllCounted
               => /\ AllCounted'
                  /\ PullStep
                       => \A i \in 1..n_arms :
                            ucb_scores(total_pulls')[i] < Inf]_vars

\* a pull() on a three-armed instance whose arms were all updated before
C13_Witness ==
  /\ cls = "UCB1" /\ n_arms = 3 /\ AllCounted
  /\ call.op = "pull" /\ call.err = "none"

\* the text of the run in progress was not accepted as n_arms probabilities
InvalidManual == run.mode = "Manual" /\ ~run.manual_probs.bound

\* C14: a run of run_bandit_app in Manual mode whose text is malformed, or
\* has a number of values other than n_arms, or has a value outside [0, 1],
\* shows an error message and goes on without raising, and constructs no
\* bandit from that input.
C14_ManualErrorsReported ==
  InvalidManual
    => /\ run.error /= "none"
       /\ call.err /= "UnboundLocalError"
       /\ call.op /= "__init__"

\* the widgets of the run in progress and the bandit it uses agree
SettingsMatch ==
  /\ n_arms = run.n_arms
  /\ run.algo_kwargs.epsilon /= <<>> => epsilon = run.algo_kwargs.epsilon[1]
  /\ run.algo_kwargs.initial_alpha /= <<>>
       => init_args.initial_alpha = run.algo_kwargs.initial_alpha[1]
  /\ run.algo_kwargs.initial_beta /= <<>>
       => init_args.initial_beta = run.algo_kwargs.initial_beta[1]

\* C15: over any sequence of runs for the three pages on one session state,
\* a run builds a new bandit for its page exactly when the page's settings
\* (n_arms, mode, manual text, hyperparameters) differ from those the
\* page's stored bandit was built from, or the page has none; so the bandit
\* a run uses has the n_arms and the hyperparameters of the run's widgets.
C15_RecreatedOnChange ==
  /\ [][(pc = "init" /\ pc' \in {"warm", "pull"})
          => (run'.needs_init
                <=> (built_with[run.key] = <<>>
                       \/ built_with[run.key][1] /= identity(run)))]_vars
  /\ [](pc = "pull" /\ run.bandit => SettingsMatch)

RECURSIVE SumSeq(_)
SumSeq(q) == IF Len(q) = 0 THEN 0 ELSE q[1] + SumSeq(Tail(q))

\* C16: every update made in do_pulls and in warm_up comes with one more
\* session step, one more rewards_log record and one more row of the log
\* file; and whenever a run uses a bandit, the session step is sum(counts)
\* of that bandit, so that each record carries the number of updates made
\* on the bandit so far.
C16_StepCountsUpdates ==
  /\ [][/\ (pc = "update" /\ pc' = "pull")
            => /\ session_state'.step = session_state.step + 1
               /\ Len(session_state'.rewards_log)
                    = Len(session_state.rewards_log) + 1
               /\ Len(log_files'[log_filename(run.key)])
                    = Len(log_files[log_filename(run.key)]) + 1
        /\ (pc = "warm" /\ pc' = "pull")
            => /\ session_state'.step = session_state.step + n_arms
               /\ Len(session_state'.rewards_log)
                    = Len(session_state.rewards_log) + n_arms
               /\ Len(log_files'["thompson_logs.csv"])
                    = Len(log_files["thompson_logs.csv"]) + n_arms]_vars
  /\ [](pc \in {"pull", "reward", "update"} /\ run.bandit
          => /\ session_state.step = SumSeq(counts)
             /\ Len(session_state.rewards_log) = SumSeq(counts)
             /\ \A k \in 1..Len(session_state.rewards_log) :
                  session_state.rewards_log[k][1] = k)

\* C17: in every state of a Thompson instance reached by warm_up() and
\* update(arm, r) calls in any order, r in {0, 1}, every arm i has
\* alphas[i] + betas[i] = initial_alpha + initial_beta + counts[i],
\* alphas[i] >= initial_alpha, betas[i] >= initial_beta, and
\* alphas[i] - initial_alpha = values[i] * counts[i].
C17_PosteriorInvariant ==
  cls = "Thompson"
    => \A i \in 1..n_arms :
         /\ alphas[i] + betas[i]
              = init_args.initial_alpha + init_args.initial_beta + counts[i]
         /\ alphas[i] >= init_args.initial_alpha
         /\ betas[i] >= init_args.initial_beta
         /\ RatInt(alphas[i] - init_args.initial_alpha)
              = RatMul(values[i], RatInt(counts[i]))

\* an update with reward 1 that follows a warm-up in which a reward was 0
C17_Witness ==
  /\ cls = "Thompson" /\ n_arms = 3 /\ n_warm = 1 /\ n_forced = 1
  /\ call.op = "update" /\ call.args[2] = 1
  /\ \E i \in 1..n_arms : counts[i] = 2
  /\ \E i \in 1..n_arms : betas[i] > init_args.initial_beta

\* the rewards the last warm_up() drew, arm by arm, as rewards_log has them
WarmRewards ==
  [i \in 1..n_arms |->
     session_state.rewards_log[Len(session_state.rewards_log) - n_arms + i][3]]

\* C18: warm_up() takes counts, values, alphas and betas to the state that
\* the calls update(0, r_0), .., update(n_arms - 1, r_{n_arms - 1}) of
\* Thompson.update lead to from the same state, r_i being the reward that
\* warm_up() drew for arm i.
C18_WarmUpAsUpdates ==
  [][(cls = "Thompson" /\ call'.op = "warm_up" /\ n_warm' = n_warm + 1)
       => [counts |-> counts', values |-> values', alphas |-> alphas',
           betas |-> betas']
            = updates_from([counts |-> counts, values |-> values,
                            alphas |-> alphas, betas |-> betas],
                           0, WarmRewards')]_vars

\* a warm-up, on a three-armed instance that was updated before, in which
\* both rewards were drawn
C18_Witness ==
  /\ cls = "Thompson" /\ n_arms = 3 /\ n_forced = 1 /\ ncalls = 2
  /\ call.op = "warm_up" /\ call.err = "none"
  /\ \E i, j \in 1..n_arms : WarmRewards[i] = 0 /\ WarmRewards[j] = 1

====
